---- MODULE Spec2Model ----
(***************************************************************************)
(* A model of power-usage (src/src/main.rs): one GET /api/v1/power-usage   *)
(* request handled by handle_power_usage, and the Prometheus client        *)
(* get_data.                                                               *)
(*                                                                         *)
(* Strings that the code splits or parses (date, time, the address label,  *)
(* the sample value) are sequences of one-character strings, so that       *)
(* split and parse are computed as the code computes them.  Strings that   *)
(* the code only compares or copies (target, csv, the instance label) are  *)
(* TLA+ strings.  An Option is a sequence of length 0 (None) or 1 (Some).  *)
(*                                                                         *)
(* Readings are f64 in the code.  The model draws them from decimal        *)
(* integer literals, on which f64 subtraction is exact and                 *)
(* daily / 24.0 * 100000.0 is never within float error of a rounding tie   *)
(* (its fractional part is 0, 1/3 or 2/3).  avg_power_watt is held as the  *)
(* integer n of n / 100.0.  NaN and infinite samples are outside the       *)
(* model.                                                                  *)
(***************************************************************************)
EXTENDS Integers, Sequences, FiniteSets, TLC

VARIABLES
    params,      \* the request's query parameters (HashMap<String,String>)
    pc,          \* position of handle_power_usage
    target,      \* local `target`
    csv,         \* local `csv`
    curr_dt,     \* local `curr_dt`, seconds since the epoch (UTC)
    prev_dt,     \* local `prev_dt`
    curr_data,   \* Option of the map returned by the first get_data
    prev_data,   \* Option of the map returned by the second get_data
    result,      \* local `result`: instance -> Vec<PowerUsage>
    status,      \* HTTP status of the response, 0 while none is sent
    body,        \* body of the response
    queries,     \* the backend queries sent so far, in order
    array,       \* get_data: res["data"]["result"] as received
    sorted,      \* get_data: local `sorted`
    result_map,  \* get_data: local `result_map`
    gpc          \* get_data: position

vars == <<params, pc, target, csv, curr_dt, prev_dt, curr_data, prev_data,
          result, status, body, queries, array, sorted, result_map, gpc>>

handlerVars == <<params, pc, target, csv, curr_dt, prev_dt, curr_data,
                 prev_data, result, status, body, queries>>

getDataVars == <<array, sorted, result_map, gpc>>

None == <<>>

Some(x) == <<x>>

\* ------------------------------------------------------------------------
\* Bounds of the model

\* longest backend result array a request's get_data receives
MaxItems == 2

\* longest backend result array in the get_data specification
MaxArray == 3

\* ------------------------------------------------------------------------
\* Program constants

HOUR == 3600

BAD_REQUEST == 400

INTERNAL_SERVER_ERROR == 500

BAD_GATEWAY == 502

OK == 200

SECS_PER_DAY == 86400

Header == "Target,Address,Prev_kWh,Current_kWh,Daily_KWh,Avg_Power_Watt"

ErrorText == "Invalid request"

\* ------------------------------------------------------------------------
\* str::split and str::parse

Digits == {"0", "1", "2", "3", "4", "5", "6", "7", "8", "9"}

DigitVal(c) ==
    CASE c = "0" -> 0 [] c = "1" -> 1 [] c = "2" -> 2 [] c = "3" -> 3
      [] c = "4" -> 4 [] c = "5" -> 5 [] c = "6" -> 6 [] c = "7" -> 7
      [] c = "8" -> 8 [] c = "9" -> 9

\* s.split(sep): the pieces between separators; never empty ("" gives [""])
RECURSIVE SplitFrom(_, _, _)
SplitFrom(s, sep, piece) ==
    IF s = <<>> THEN <<piece>>
    ELSE IF Head(s) = sep THEN <<piece>> \o SplitFrom(Tail(s), sep, <<>>)
    ELSE SplitFrom(Tail(s), sep, Append(piece, Head(s)))

Split(s, sep) == SplitFrom(s, sep, <<>>)

RECURSIVE DigitsValue(_, _)
DigitsValue(s, acc) ==
    IF s = <<>> THEN acc ELSE DigitsValue(Tail(s), acc * 10 + DigitVal(Head(s)))

AllDigits(s) == s # <<>> /\ \A i \in 1..Len(s) : s[i] \in Digits

\* s.parse::<u32>().ok(): decimal digits, one optional leading '+'.  The
\* tokens of the model have at most 4 digits, so the overflow error of the
\* parse does not arise.
ParseU32(s) ==
    LET t == IF s # <<>> /\ Head(s) = "+" THEN Tail(s) ELSE s
    IN  IF AllDigits(t) THEN Some(DigitsValue(t, 0)) ELSE None

\* s.parse::<f64>().ok() on the sample literals of the model: an optional
\* sign and decimal digits give that integer, anything else in the model's
\* alphabet (letters, the empty string) is an error.
ParseF64(s) ==
    LET neg == s # <<>> /\ Head(s) = "-"
        t   == IF s # <<>> /\ Head(s) \in {"+", "-"} THEN Tail(s) ELSE s
    IN  IF AllDigits(t)
        THEN Some(IF neg THEN 0 - DigitsValue(t, 0) ELSE DigitsValue(t, 0))
        ELSE None

\* d.split(sep).filter_map(|s| s.parse().ok()).collect(): the components
\* that parse, in order; the components that do not parse are dropped
RECURSIVE FilterMapParse(_)
FilterMapParse(pieces) ==
    IF pieces = <<>> THEN <<>>
    ELSE ParseU32(Head(pieces)) \o FilterMapParse(Tail(pieces))

NumericParts(s, sep) == FilterMapParse(Split(s, sep))

\* the closure of lines 56-63: Some((year, month, day)) or None
ParseDate(d) ==
    LET parts == NumericParts(d, "-")
    IN  IF Len(parts) = 3 THEN Some(<<parts[1], parts[2], parts[3]>>) ELSE None

\* the closure of lines 68-75: Some((hour, minute)) or None
ParseTime(t) ==
    LET parts == NumericParts(t, ":")
    IN  IF Len(parts) = 2 THEN Some(<<parts[1], parts[2]>>) ELSE None

\* params.get("csv").map_or(false, |v| v == "true")
ParseCsv(opt) == IF opt = None THEN FALSE ELSE opt[1] = "true"

\* ------------------------------------------------------------------------
\* chrono: NaiveDate, NaiveDateTime, FixedOffset, DateTime<Utc>

IsLeapYear(y) == (y % 4 = 0 /\ y % 100 # 0) \/ y % 400 = 0

DaysInMonth(y, m) ==
    CASE m \in {1, 3, 5, 7, 8, 10, 12} -> 31
      [] m \in {4, 6, 9, 11} -> 30
      [] m = 2 -> IF IsLeapYear(y) THEN 29 ELSE 28

\* days from 1970-01-01 to the civil date y-m-d (proleptic Gregorian)
DaysFromCivil(y, m, d) ==
    LET yy  == IF m <= 2 THEN y - 1 ELSE y
        era == yy \div 400
        yoe == yy - era * 400
        mp  == (m + 9) % 12
        doy == (153 * mp + 2) \div 5 + d - 1
        doe == yoe * 365 + yoe \div 4 - yoe \div 100 + doy
    IN  era * 146097 + doe - 719468

\* the civil date of a day number, the inverse of DaysFromCivil
CivilFromDays(z) ==
    LET zz  == z + 719468
        era == zz \div 146097
        doe == zz - era * 146097
        yoe == (doe - doe \div 1460 + doe \div 36524 - doe \div 146096) \div 365
        doy == doe - (365 * yoe + yoe \div 4 - yoe \div 100)
        mp  == (5 * doy + 2) \div 153
        d   == doy - (153 * mp + 2) \div 5 + 1
        m   == IF mp < 10 THEN mp + 3 ELSE mp - 9
        y   == yoe + era * 400 + (IF m <= 2 THEN 1 ELSE 0)
    IN  <<y, m, d>>

\* faulty variant of FromYmdOpt: the month is not checked
FromYmdOpt_AnyMonth(y, m, d) ==
    IF m >= 1 /\ d >= 1 /\ d <= 31 THEN Some(<<y, m, d>>) ELSE None

\* NaiveDate::from_ymd_opt
FromYmdOpt(y, m, d) ==
    IF m \in 1..12 /\ d >= 1 /\ d <= DaysInMonth(y, m)
    THEN Some(<<y, m, d>>) ELSE None

\* NaiveDate::and_hms_opt: the naive timestamp as seconds from
\* 1970-01-01T00:00:00 on the same (zone-less) clock
AndHmsOpt(date, h, mi, s) ==
    IF h < 24 /\ mi < 60 /\ s < 60
    THEN Some(DaysFromCivil(date[1], date[2], date[3]) * SECS_PER_DAY
              + h * HOUR + mi * 60 + s)
    ELSE None

\* FixedOffset::east_opt
EastOpt(secs) == IF -86400 < secs /\ secs < 86400 THEN Some(secs) ELSE None

\* naive.and_local_timezone(tz).single()...with_timezone(&Utc): a fixed
\* offset maps every local time to one instant, local minus the offset
ToUtc(naive, tz) == Some(naive - tz)

\* faulty variant of PrevDay: Duration::hours(1)
PrevDay_OneHour(dt) == dt - HOUR

\* curr_dt - Duration::days(1)
PrevDay(dt) == dt - SECS_PER_DAY

\* datetime.to_rfc3339_opts(SecondsFormat::Secs, true): the fields of
\* "YYYY-MM-DDThh:mm:ssZ"
ToRfc3339(dt) ==
    LET days == dt \div SECS_PER_DAY
        secs == dt % SECS_PER_DAY
        ymd  == CivilFromDays(days)
    IN  [year |-> ymd[1], month |-> ymd[2], day |-> ymd[3],
         hour |-> secs \div HOUR, minute |-> (secs % HOUR) \div 60,
         second |-> secs % 60, zone |-> "Z"]

\* ------------------------------------------------------------------------
\* handle_power_usage, lines 49-92: the decoding of the parameters

Failed(code) ==
    [code |-> code, target |-> "", csv |-> FALSE, curr_dt |-> 0, prev_dt |-> 0]

\* lines 82-84
NaiveDateTime(date, time) ==
    LET d == FromYmdOpt(date[1], date[2], date[3])
    IN  IF d = None THEN None ELSE AndHmsOpt(d[1], time[1], time[2], 0)

DecodeParams(p) ==
    LET date  == IF p.date = None THEN None ELSE ParseDate(p.date[1])
        time  == IF p.time = None THEN None ELSE ParseTime(p.time[1])
        tz    == EastOpt(7 * HOUR)
        naive == NaiveDateTime(date[1], time[1])
        curr  == ToUtc(naive[1], tz[1])
    IN  IF p.target = None THEN Failed(BAD_REQUEST)
        ELSE IF date = None THEN Failed(BAD_REQUEST)
        ELSE IF time = None THEN Failed(BAD_REQUEST)
        ELSE IF tz = None THEN Failed(INTERNAL_SERVER_ERROR)
        ELSE IF naive = None THEN Failed(BAD_REQUEST)
        ELSE IF curr = None THEN Failed(BAD_REQUEST)
        ELSE [code |-> 0, target |-> p.target[1], csv |-> ParseCsv(p.csv),
              curr_dt |-> curr[1], prev_dt |-> PrevDay(curr[1])]

\* ------------------------------------------------------------------------
\* get_data

EmptyMap == [k \in {} |-> <<>>]

\* result_map.entry(k).or_insert_with(Vec::new).push(v)
MapPush(m, k, v) ==
    IF k \in DOMAIN m THEN [m EXCEPT ![k] = Append(@, v)]
    ELSE [x \in DOMAIN m \cup {k} |-> IF x = k THEN <<v>> ELSE m[x]]

\* the sort key of lines 178-183
AddressKey(item) ==
    LET n == IF item.address = None THEN None ELSE ParseU32(item.address[1])
    IN  IF n = None THEN 0 ELSE n[1]

\* faulty variant of InsertByKey: an item goes before the items of equal key
\* (an unstable sort)
RECURSIVE InsertByKey_Unstable(_, _)
InsertByKey_Unstable(x, s) ==
    IF s = <<>> THEN <<x>>
    ELSE IF AddressKey(x) <= AddressKey(Head(s)) THEN <<x>> \o s
    ELSE <<Head(s)>> \o InsertByKey_Unstable(x, Tail(s))

\* where slice::sort_by_key puts an item among the already sorted ones:
\* behind every item whose key is not larger (the sort is stable)
RECURSIVE InsertByKey(_, _)
InsertByKey(x, s) ==
    IF s = <<>> THEN <<x>>
    ELSE IF AddressKey(x) < AddressKey(Head(s)) THEN <<x>> \o s
    ELSE <<Head(s)>> \o InsertByKey(x, Tail(s))

RECURSIVE SortByKey(_)
SortByKey(s) ==
    IF s = <<>> THEN <<>>
    ELSE InsertByKey(s[Len(s)], SortByKey(SubSeq(s, 1, Len(s) - 1)))

\* item["metric"]["instance"].as_str().unwrap_or("unknown")
InstanceOf(item) == IF item.instance = None THEN "unknown" ELSE item.instance[1]

\* item["value"][1].as_str().and_then(|s| s.parse::<f64>().ok())
ValueOf(item) == IF item.value = None THEN None ELSE ParseF64(item.value[1])

\* the loop of lines 187-197
RECURSIVE GroupInto(_, _)
GroupInto(items, m) ==
    IF items = <<>> THEN m
    ELSE LET val == ValueOf(Head(items))
         IN  GroupInto(Tail(items),
                       IF val # None
                       THEN MapPush(m, InstanceOf(Head(items)), val[1])
                       ELSE m)

\* faulty variant of FetchErrorCode: a body without data.result is answered
\* as a bad request
FetchErrorCode_BadRequest(kind) ==
    CASE kind = "build_error" -> INTERNAL_SERVER_ERROR
      [] kind = "transport"   -> BAD_GATEWAY
      [] kind = "bad_json"    -> BAD_GATEWAY
      [] kind = "no_array"    -> BAD_REQUEST

\* the status of each way the fetch fails: lines 152, 168, 171, 175
FetchErrorCode(kind) ==
    CASE kind = "build_error" -> INTERNAL_SERVER_ERROR
      [] kind = "transport"   -> BAD_GATEWAY
      [] kind = "bad_json"    -> BAD_GATEWAY
      [] kind = "no_array"    -> BAD_GATEWAY

\* the request is sent unless the client could not be built (line 152)
QuerySent(outcome) == outcome.kind # "build_error"

\* the query of lines 157-161
Query(tgt, dt) == [target |-> tgt, time |-> ToRfc3339(dt)]

\* get_data's return value, given what the backend does
GetData(outcome) ==
    IF outcome.kind = "ok"
    THEN [ok |-> TRUE, code |-> 0,
          map |-> GroupInto(SortByKey(outcome.array), EmptyMap)]
    ELSE [ok |-> FALSE, code |-> FetchErrorCode(outcome.kind), map |-> EmptyMap]

\* ------------------------------------------------------------------------
\* handle_power_usage, lines 97-119: pairing and the usage of each pair

\* f64::round of a / b for b > 0: to the nearest integer, halves away from 0
RoundDiv(a, b) ==
    IF a >= 0 THEN (2 * a + b) \div (2 * b)
    ELSE 0 - ((2 * (0 - a) + b) \div (2 * b))

\* faulty variant of AvgPowerWatt: floor in place of round
AvgPowerWatt_Floor(daily) == (daily * 100000) \div 24

\* (daily / 24.0 * 100000.0).round(), the n of avg_power_watt = n / 100.0
AvgPowerWatt(daily) == RoundDiv(daily * 100000, 24)

\* the closure of lines 108-116
Usage(curr, prev) ==
    LET daily == curr - prev
    IN  [prev_kwh |-> prev, curr_kwh |-> curr, daily_kwh |-> daily,
         avg_power_watt |-> AvgPowerWatt(daily)]

\* faulty variant of ZipUsage: the previous sequence is padded with 0 to the
\* length of the current one
ZipUsage_Pad(curr_values, prev_values) ==
    [i \in 1..Len(curr_values) |->
        Usage(curr_values[i],
              IF i <= Len(prev_values) THEN prev_values[i] ELSE 0)]

\* curr_values.iter().zip(prev_values.iter()).map(..).collect()
ZipUsage(curr_values, prev_values) ==
    LET n == IF Len(curr_values) <= Len(prev_values)
             THEN Len(curr_values) ELSE Len(prev_values)
    IN  [i \in 1..n |-> Usage(curr_values[i], prev_values[i])]

\* the keys of curr_data the loop does not `continue` on (lines 100-103)
PairedKeys(curr, prev) == {key \in DOMAIN curr : key \in DOMAIN prev}

\* faulty variant of AlignData: an instance missing from prev gets an empty
\* entry in place of none
AlignData_NoSkip(curr, prev) ==
    [key \in DOMAIN curr |->
        IF key \in DOMAIN prev THEN ZipUsage(curr[key], prev[key]) ELSE <<>>]

\* the loop of lines 99-119
AlignData(curr, prev) ==
    [key \in PairedKeys(curr, prev) |-> ZipUsage(curr[key], prev[key])]

\* ------------------------------------------------------------------------
\* handle_power_usage, lines 121-142: the response

\* whether line 126 lets the record through
CsvKeeps(usage) == usage.avg_power_watt # 0

\* faulty variant of CsvAddress: the 0-based index
CsvAddress_ZeroBased(i) == i

\* the column `i + 1` of line 130, i the 0-based index of enumerate()
CsvAddress(i) == i + 1

\* the lines of one instance (the inner loop of lines 125-137), from the
\* 0-based index i on
RECURSIVE CsvLinesFrom(_, _, _)
CsvLinesFrom(key, usages, i) ==
    IF i >= Len(usages) THEN <<>>
    ELSE LET usage == usages[i + 1]
             line  == [target |-> key, address |-> CsvAddress(i),
                       prev_kwh |-> usage.prev_kwh,
                       curr_kwh |-> usage.curr_kwh,
                       daily_kwh |-> usage.daily_kwh,
                       avg_power_watt |-> usage.avg_power_watt]
         IN  (IF CsvKeeps(usage) THEN <<line>> ELSE <<>>)
             \o CsvLinesFrom(key, usages, i + 1)

\* the outer loop of line 124, over the keys in the order the HashMap
\* yields them
RECURSIVE CsvLinesOf(_, _)
CsvLinesOf(res, order) ==
    IF order = <<>> THEN <<>>
    ELSE CsvLinesFrom(Head(order), res[Head(order)], 0)
         \o CsvLinesOf(res, Tail(order))

\* the orders a HashMap with keys S may iterate in: every one
KeyOrders(S) ==
    {o \in [1..Cardinality(S) -> S] : \A k \in S : \E i \in DOMAIN o : o[i] = k}

CsvBody(res, order) ==
    [kind |-> "csv", header |-> Header, lines |-> CsvLinesOf(res, order)]

JsonBody(res) == [kind |-> "json", value |-> res]

\* line 44
ErrorBody == [kind |-> "text", text |-> ErrorText]

NoBody == [kind |-> "none"]

\* ------------------------------------------------------------------------
\* Inputs

Str_2024_01_02 == <<"2","0","2","4","-","0","1","-","0","2">>

Str_2024_03_01 == <<"2","0","2","4","-","0","3","-","0","1">>

Str_2024_13_01 == <<"2","0","2","4","-","1","3","-","0","1">>

Str_2023_02_29 == <<"2","0","2","3","-","0","2","-","2","9">>

Str_2024_01_02_x == <<"2","0","2","4","-","0","1","-","0","2","-","x">>

Str_2024_01 == <<"2","0","2","4","-","0","1">>

Str_2024_01_02_03 == <<"2","0","2","4","-","0","1","-","0","2","-","0","3">>

Str_2024_xx_02 == <<"2","0","2","4","-","x","x","-","0","2">>

Str_12_30 == <<"1","2",":","3","0">>

Str_00_00 == <<"0","0",":","0","0">>

Str_24_00 == <<"2","4",":","0","0">>

Str_12_60 == <<"1","2",":","6","0">>

Str_12_30_x == <<"1","2",":","3","0",":","x">>

Str_12 == <<"1","2">>

Str_12_30_45 == <<"1","2",":","3","0",":","4","5">>

Str_ab_30 == <<"a","b",":","3","0">>

DateInputs ==
    {None, Some(Str_2024_01_02), Some(Str_2024_03_01), Some(Str_2024_13_01),
     Some(Str_2023_02_29), Some(Str_2024_01_02_x), Some(Str_2024_01),
     Some(Str_2024_01_02_03), Some(Str_2024_xx_02), Some(<<>>)}

TimeInputs ==
    {None, Some(Str_12_30), Some(Str_00_00), Some(Str_24_00), Some(Str_12_60),
     Some(Str_12_30_x), Some(Str_12), Some(Str_12_30_45), Some(Str_ab_30)}

TargetInputs == {None, Some("meter.*")}

CsvInputs == {None, Some("true"), Some("1")}

ParamsInputs ==
    [target : TargetInputs, date : DateInputs, time : TimeInputs,
     csv : CsvInputs]

\* every sequence over U of length at most n
SeqsUpTo(U, n) == UNION {[1..k -> U] : k \in 0..n}

Item(inst, addr, val) == [instance |-> inst, address |-> addr, value |-> val]

\* the result items a request's backend answers with
HandlerItems ==
    {Item(Some(i), Some(a), Some(v)) :
        i \in {"a", "b"}, a \in {<<"1">>, <<"2">>}, v \in {<<"4">>, <<"5">>}}
    \cup {Item(Some("a"), Some(<<"1">>), Some(<<"x">>))}

\* the result items of the get_data specification
GetDataItems ==
    {Item(i, a, Some(v)) :
        i \in {None, Some("a")},
        a \in {None, Some(<<"2">>), Some(<<"1","0">>), Some(<<"x">>)},
        v \in {<<"3">>, <<"5">>, <<"x">>}}

FailureKinds == {"build_error", "transport", "bad_json", "no_array"}

Outcome(kind, arr) == [kind |-> kind, array |-> arr]

\* what the backend may do to one query
Outcomes ==
    {Outcome(k, <<>>) : k \in FailureKinds}
    \cup {Outcome("ok", a) : a \in SeqsUpTo(HandlerItems, MaxItems)}

\* ------------------------------------------------------------------------
\* One request: power_usage_handler calling handle_power_usage

Init ==
    /\ params \in ParamsInputs
    /\ pc = "decode"
    /\ target = ""
    /\ csv = FALSE
    /\ curr_dt = 0
    /\ prev_dt = 0
    /\ curr_data = None
    /\ prev_data = None
    /\ result = EmptyMap
    /\ status = 0
    /\ body = NoBody
    /\ queries = <<>>
    /\ array = <<>>
    /\ sorted = <<>>
    /\ result_map = EmptyMap
    /\ gpc = "idle"

\* the Err arm of line 44
Respond(code) ==
    /\ status' = code
    /\ body' = ErrorBody
    /\ pc' = "done"

\* lines 49-92
Decode ==
    /\ pc = "decode"
    /\ LET d == DecodeParams(params)
       IN  IF d.code # 0
           THEN /\ Respond(d.code)
                /\ UNCHANGED <<target, csv, curr_dt, prev_dt>>
           ELSE /\ target' = d.target
                /\ csv' = d.csv
                /\ curr_dt' = d.curr_dt
                /\ prev_dt' = d.prev_dt
                /\ pc' = "fetch_curr"
                /\ UNCHANGED <<status, body>>
    /\ UNCHANGED <<params, curr_data, prev_data, result, queries>>
    /\ UNCHANGED getDataVars

\* line 94: get_data(&target, curr_dt).await?
FetchCurr(outcome) ==
    /\ pc = "fetch_curr"
    /\ queries' = IF QuerySent(outcome)
                  THEN Append(queries, Query(target, curr_dt)) ELSE queries
    /\ LET r == GetData(outcome)
       IN  IF r.ok
           THEN /\ curr_data' = Some(r.map)
                /\ pc' = "fetch_prev"
                /\ UNCHANGED <<status, body>>
           ELSE /\ Respond(r.code)
                /\ UNCHANGED curr_data
    /\ UNCHANGED <<params, target, csv, curr_dt, prev_dt, prev_data, result>>
    /\ UNCHANGED getDataVars

\* faulty variant of FetchPrev: a failed fetch is tried again
FetchPrev_Retry(outcome) ==
    /\ pc = "fetch_prev"
    /\ queries' = IF QuerySent(outcome)
                  THEN Append(queries, Query(target, prev_dt)) ELSE queries
    /\ LET r == GetData(outcome)
       IN  IF r.ok
           THEN /\ prev_data' = Some(r.map)
                /\ pc' = "align"
           ELSE UNCHANGED <<prev_data, pc>>
    /\ UNCHANGED <<params, target, csv, curr_dt, prev_dt, curr_data, result,
                   status, body>>
    /\ UNCHANGED getDataVars

\* line 95: get_data(&target, prev_dt).await?
FetchPrev(outcome) ==
    /\ pc = "fetch_prev"
    /\ queries' = IF QuerySent(outcome)
                  THEN Append(queries, Query(target, prev_dt)) ELSE queries
    /\ LET r == GetData(outcome)
       IN  IF r.ok
           THEN /\ prev_data' = Some(r.map)
                /\ pc' = "align"
                /\ UNCHANGED <<status, body>>
           ELSE /\ Respond(r.code)
                /\ UNCHANGED prev_data
    /\ UNCHANGED <<params, target, csv, curr_dt, prev_dt, curr_data, result>>
    /\ UNCHANGED getDataVars

\* lines 97-119
Align ==
    /\ pc = "align"
    /\ result' = AlignData(curr_data[1], prev_data[1])
    /\ pc' = "render"
    /\ UNCHANGED <<params, target, csv, curr_dt, prev_dt, curr_data,
                   prev_data, status, body, queries>>
    /\ UNCHANGED getDataVars

\* lines 121-142
Render(order) ==
    /\ pc = "render"
    /\ status' = OK
    /\ body' = IF csv THEN CsvBody(result, order) ELSE JsonBody(result)
    /\ pc' = "done"
    /\ UNCHANGED <<params, target, csv, curr_dt, prev_dt, curr_data,
                   prev_data, result, queries>>
    /\ UNCHANGED getDataVars

Next ==
    \/ Decode
    \/ \E outcome \in Outcomes : FetchCurr(outcome)
    \/ \E outcome \in Outcomes : FetchPrev(outcome)
    \/ Align
    \/ \E order \in KeyOrders(DOMAIN result) : Render(order)

Spec == Init /\ [][Next]_vars

\* ------------------------------------------------------------------------
\* get_data on one backend result array, lines 177-199

InitGetData ==
    /\ params = [target |-> None, date |-> None, time |-> None, csv |-> None]
    /\ pc = "idle"
    /\ target = ""
    /\ csv = FALSE
    /\ curr_dt = 0
    /\ prev_dt = 0
    /\ curr_data = None
    /\ prev_data = None
    /\ result = EmptyMap
    /\ status = 0
    /\ body = NoBody
    /\ queries = <<>>
    /\ array \in SeqsUpTo(GetDataItems, MaxArray)
    /\ sorted = <<>>
    /\ result_map = EmptyMap
    /\ gpc = "sort"

\* lines 177-183
GetDataSort ==
    /\ gpc = "sort"
    /\ sorted' = SortByKey(array)
    /\ gpc' = "group"
    /\ UNCHANGED <<array, result_map>>
    /\ UNCHANGED handlerVars

\* lines 185-199
GetDataGroup ==
    /\ gpc = "group"
    /\ result_map' = GroupInto(sorted, EmptyMap)
    /\ gpc' = "done"
    /\ UNCHANGED <<array, sorted>>
    /\ UNCHANGED handlerVars

NextGetData == GetDataSort \/ GetDataGroup

SpecGetData == InitGetData /\ [][NextGetData]_vars

\* ------------------------------------------------------------------------
\* Properties

\* a parameter is well formed when it is present, splits at sep into exactly
\* n components, and every component is a number
WellFormed(opt, sep, n) ==
    /\ opt # None
    /\ Len(Split(opt[1], sep)) = n
    /\ \A i \in 1..Len(Split(opt[1], sep)) :
           ParseU32(Split(opt[1], sep)[i]) # None

Malformed ==
    \/ params.target = None
    \/ ~WellFormed(params.date, "-", 3)
    \/ ~WellFormed(params.time, ":", 2)

\* C1: once the parameters are decoded, a request whose target is missing,
\* whose date does not split into exactly 3 components, whose time does not
\* split into exactly 2 components, or that has a non-numeric component of
\* date or time, has been answered 400.
C1_MalformedIsRejected ==
    (pc # "decode" /\ Malformed) => status = BAD_REQUEST

BackendFailures == {"transport", "bad_json", "no_array"}

\* C2: every step in which a backend fetch fails by a transport failure or
\* timeout, an unparsable body or a body without data.result, on the current
\* or on the previous instant, ends the request with 502 and the generic
\* message, never with 400.
C2_FetchFailureIsBadGateway ==
    [][\A k \in BackendFailures :
          (FetchCurr(Outcome(k, <<>>)) \/ FetchPrev(Outcome(k, <<>>)))
              => /\ status' = BAD_GATEWAY
                 /\ status' # BAD_REQUEST
                 /\ body' = ErrorBody
                 /\ pc' = "done"]_vars

\* the current-instant fetch was sent and failed
C2_Witness ==
    /\ pc = "done"
    /\ status = BAD_GATEWAY
    /\ Len(queries) = 1
    /\ curr_data = None

Aligned == pc \in {"render", "done"} /\ prev_data # None

\* C3: the keys of the usage result are exactly the keys present in both the
\* current and the previous mapping, and a request in which an instance is
\* in one mapping only is answered 200.
C3_KeysAreIntersection ==
    Aligned =>
        /\ DOMAIN result = (DOMAIN curr_data[1]) \cap (DOMAIN prev_data[1])
        /\ pc = "done" =>
               /\ status = OK
               /\ body.kind = "json" => DOMAIN body.value = DOMAIN result
               /\ body.kind = "csv" =>
                      \A i \in 1..Len(body.lines) :
                          body.lines[i].target \in DOMAIN result

\* instance a is in the current mapping only, b in both
C3_Witness ==
    /\ pc = "done"
    /\ prev_data # None
    /\ DOMAIN curr_data[1] = {"a", "b"}
    /\ DOMAIN prev_data[1] = {"b"}
    /\ DOMAIN result = {"b"}
    /\ status = OK

MinOf(a, b) == IF a <= b THEN a ELSE b

\* C4: for every instance in both mappings the number of records is the
\* length of the shorter sequence, and the i-th record carries the i-th
\* current and the i-th previous reading.
C4_PositionalPairs ==
    Aligned =>
        \A key \in (DOMAIN curr_data[1]) \cap (DOMAIN prev_data[1]) :
            /\ key \in DOMAIN result
            /\ Len(result[key]) =
                   MinOf(Len(curr_data[1][key]), Len(prev_data[1][key]))
            /\ \A i \in 1..Len(result[key]) :
                   /\ result[key][i].curr_kwh = curr_data[1][key][i]
                   /\ result[key][i].prev_kwh = prev_data[1][key][i]

\* the current sequence of a is longer than the previous one
C4_Witness ==
    /\ pc = "done"
    /\ prev_data # None
    /\ "a" \in DOMAIN curr_data[1]
    /\ "a" \in DOMAIN prev_data[1]
    /\ Len(curr_data[1]["a"]) = 2
    /\ Len(prev_data[1]["a"]) = 1
    /\ Len(result["a"]) = 1

\* the address number of an item, stated from the claim: the number the
\* address label spells, 0 when the label is missing or spells none
AddressNumber(item) ==
    IF item.address # None /\ ParseU32(item.address[1]) # None
    THEN ParseU32(item.address[1])[1] ELSE 0

\* the position the i-th item of arr has after a stable ascending sort
StableRank(arr, i) ==
    1 + Cardinality({j \in 1..Len(arr) :
          \/ AddressNumber(arr[j]) < AddressNumber(arr[i])
          \/ AddressNumber(arr[j]) = AddressNumber(arr[i]) /\ j < i})

\* the items of arr labelled with instance k whose value parses, in order
Contributing(arr, k) ==
    LET Test(item) ==
            /\ (IF item.instance = None THEN "unknown" ELSE item.instance[1]) = k
            /\ item.value # None
            /\ ParseF64(item.value[1]) # None
    IN  SelectSeq(arr, Test)

InstancesOf(arr) ==
    {IF arr[i].instance = None THEN "unknown" ELSE arr[i].instance[1] :
        i \in 1..Len(arr)}

\* C5: get_data sorts the result items stably and ascending by address
\* number, and the sequence of every instance holds the parsed values of its
\* items in that order, the items whose value does not parse left out.
C5_SortedGrouping ==
    /\ gpc \in {"group", "done"} =>
           /\ Len(sorted) = Len(array)
           /\ \A i \in 1..Len(array) : sorted[StableRank(array, i)] = array[i]
    /\ gpc = "done" =>
           /\ DOMAIN result_map =
                  {k \in InstancesOf(array) : Contributing(sorted, k) # <<>>}
           /\ \A k \in DOMAIN result_map :
                  /\ Len(result_map[k]) = Len(Contributing(sorted, k))
                  /\ \A i \in 1..Len(result_map[k]) :
                         result_map[k][i] =
                             ParseF64(Contributing(sorted, k)[i].value[1])[1]
                  /\ \A i, j \in 1..Len(Contributing(sorted, k)) :
                         i < j =>
                             AddressNumber(Contributing(sorted, k)[i])
                                 <= AddressNumber(Contributing(sorted, k)[j])

\* address 10 before address 2 in the backend's order, a third item without
\* an instance label and with a non-numeric address
C5_Witness ==
    /\ gpc = "done"
    /\ array = <<Item(Some("a"), Some(<<"1","0">>), Some(<<"5">>)),
                 Item(Some("a"), Some(<<"2">>), Some(<<"3">>)),
                 Item(None, Some(<<"x">>), Some(<<"5">>))>>
    /\ result_map = [k \in {"a", "unknown"} |->
                        IF k = "a" THEN <<3, 5>> ELSE <<5>>]

\* the lines of the body that belong to instance key
LinesOf(key) ==
    LET Test(line) == line.target = key
    IN  SelectSeq(body.lines, Test)

\* C6: a csv body has the fixed header and, for every instance, one line per
\* record whose averagePowerWatts is not 0, in the records' order, with the
\* record's 1-based position among all records of the instance as Address.
C6_CsvLines ==
    (pc = "done" /\ status = OK) =>
        /\ body.kind = "csv" <=> params.csv = Some("true")
        /\ body.kind = "csv" =>
               /\ body.header = Header
               /\ \A i \in 1..Len(body.lines) :
                      body.lines[i].target \in DOMAIN result
               /\ \A key \in DOMAIN result :
                      LET lines == LinesOf(key)
                          kept  == {i \in 1..Len(result[key]) :
                                       result[key][i].avg_power_watt # 0}
                      IN  /\ Len(lines) = Cardinality(kept)
                          /\ \A j \in 1..Len(lines) :
                                 /\ lines[j].address \in kept
                                 /\ j > 1 =>
                                        lines[j - 1].address < lines[j].address
                                 /\ LET usage == result[key][lines[j].address]
                                    IN  /\ lines[j].prev_kwh = usage.prev_kwh
                                        /\ lines[j].curr_kwh = usage.curr_kwh
                                        /\ lines[j].daily_kwh = usage.daily_kwh
                                        /\ lines[j].avg_power_watt
                                               = usage.avg_power_watt

\* the first record of a has average 0 and is left out, the second is kept
\* and keeps Address 2
C6_Witness ==
    /\ pc = "done"
    /\ status = OK
    /\ body.kind = "csv"
    /\ DOMAIN result = {"a"}
    /\ Len(result["a"]) = 2
    /\ result["a"][1].avg_power_watt = 0
    /\ result["a"][2].avg_power_watt # 0
    /\ Len(body.lines) = 1
    /\ body.lines[1].address = 2

\* seconds from the epoch of the instant an RFC 3339 UTC time names
EpochOf(t) ==
    DaysFromCivil(t.year, t.month, t.day) * 86400
        + t.hour * 3600 + t.minute * 60 + t.second

\* the supplied date and time read as a UTC+7 wall clock, as an instant
SuppliedInstant ==
    LET date == ParseDate(params.date[1])[1]
        time == ParseTime(params.time[1])[1]
    IN  DaysFromCivil(date[1], date[2], date[3]) * 86400
            + time[1] * 3600 + time[2] * 60 - 7 * 3600

Rfc3339(y, m, d, h, mi, s) ==
    [year |-> y, month |-> m, day |-> d, hour |-> h, minute |-> mi,
     second |-> s, zone |-> "Z"]

\* C7: the current query is made for the supplied local time at UTC+7, the
\* previous-day query for the instant exactly 86400 seconds earlier, both
\* with the supplied target; so 2024-03-01 00:00 asks for
\* 2024-02-29T17:00:00Z and 2024-02-28T17:00:00Z.
C7_PreviousIsOneDayEarlier ==
    /\ Len(queries) >= 1 =>
           /\ EpochOf(queries[1].time) = SuppliedInstant
           /\ queries[1].target = params.target[1]
    /\ Len(queries) >= 2 =>
           /\ EpochOf(queries[2].time) = EpochOf(queries[1].time) - 86400
           /\ queries[2].target = queries[1].target
    /\ (/\ Len(queries) = 2
        /\ params.date = Some(Str_2024_03_01)
        /\ params.time = Some(Str_00_00)) =>
           /\ queries[1].time = Rfc3339(2024, 2, 29, 17, 0, 0)
           /\ queries[2].time = Rfc3339(2024, 2, 28, 17, 0, 0)

\* both queries of a request for 2024-03-01 00:00 were sent
C7_Witness ==
    /\ Len(queries) = 2
    /\ params.date = Some(Str_2024_03_01)
    /\ params.time = Some(Str_00_00)
    /\ queries[2].time.day = 28

AbsOf(x) == IF x < 0 THEN 0 - x ELSE x

\* n is the integer nearest to 100000 * d / 24
NearestTo(n, d) == 2 * AbsOf(24 * n - 100000 * d) <= 24

C9_BothFetchesFirst ==
    /\ Len(queries) <= 2
    /\ (pc \in {"align", "render"} \/ status = OK \/ result # EmptyMap) =>
           /\ curr_data # None
           /\ prev_data # None
           /\ Len(queries) = 2
    /\ (status # 0 /\ status # OK) =>
           /\ pc = "done"
           /\ status \in {BAD_REQUEST, INTERNAL_SERVER_ERROR, BAD_GATEWAY}
           /\ body = ErrorBody
           /\ result = EmptyMap
    /\ (pc = "done" /\ prev_data = None) => status # OK

\* the current fetch returned data, the previous one failed
C9_Witness ==
    /\ pc = "done"
    /\ curr_data # None
    /\ curr_data[1] # EmptyMap
    /\ prev_data = None
    /\ Len(queries) = 2
    /\ status = BAD_GATEWAY
    /\ body = ErrorBody

InvalidCalendar ==
    \/ params.date \in {Some(Str_2024_13_01), Some(Str_2023_02_29)}
    \/ params.time \in {Some(Str_24_00), Some(Str_12_60)}

\* C10: a request answered 400 has sent no backend query, a request with an
\* invalid calendar date or time never sends one, and the previous-instant
\* query is sent only when the current-instant fetch has returned its data.
C10_DecodeBeforeBackend ==
    /\ status = BAD_REQUEST => (queries = <<>> /\ curr_data = None)
    /\ InvalidCalendar => queries = <<>>
    /\ (pc = "done" /\ InvalidCalendar) => status = BAD_REQUEST
    /\ Len(queries) = 2 => curr_data # None
    /\ pc = "fetch_prev" => (curr_data # None /\ Len(queries) = 1)

\* month 13 with every parameter well formed: rejected, nothing sent
C10_Witness ==
    /\ pc = "done"
    /\ status = BAD_REQUEST
    /\ params.target # None
    /\ params.date = Some(Str_2024_13_01)
    /\ params.time = Some(Str_12_30)
    /\ queries = <<>>

====
